---- MODULE Spec2Model ----
(***************************************************************************)
(* Model of the primitive_from crate: the trait PrimitiveFrom and the      *)
(* table of implementations generated by impl_primitive_from!, each of     *)
(* which is the cast `a as $T`.                                            *)
(*                                                                         *)
(* A value of any scalar kind is its machine representation: a sequence    *)
(* of bits, index 1 being the least significant bit, of the kind's width.  *)
(* Integers are two's complement, floats are IEEE 754 binary32/binary64,   *)
(* a char is its 32-bit code point, a bool is the byte 0 or 1.             *)
(***************************************************************************)
EXTENDS Integers, Sequences, FiniteSets

VARIABLES ptr, orig, prev, cur, step

vars == <<ptr, orig, prev, cur, step>>

\* Longest chain of conversions applied to one input.
MaxSteps == 2

----------------------------------------------------------------------------
\* The kinds and the table of implementations

UnsignedKinds == {"u8", "u16", "u32", "u64", "usize"}
SignedKinds == {"i8", "i16", "i32", "i64", "isize"}
IntKinds == UnsignedKinds \cup SignedKinds
FloatKinds == {"f32", "f64"}
NumericKinds == IntKinds \cup FloatKinds
Kinds == NumericKinds \cup {"char", "bool"}

\* The target list shared by the twelve numeric source lines.
NumericTargets ==
    {"u8", "i8", "u16", "i16", "u32", "i32", "u64", "isize", "usize", "i64",
     "f32", "f64"}

\* The target list of the char line and of the bool line.
IntegerTargets ==
    {"u8", "i8", "u16", "i16", "u32", "i32", "u64", "isize", "usize", "i64"}

\* A table that lost the float targets of the float source lines.
TargetsNoFloatToFloat(U) ==
    CASE U = "u8" -> {"char"} \cup NumericTargets
      [] U \in IntKinds \ {"u8"} -> NumericTargets
      [] U \in FloatKinds -> IntegerTargets
      [] U = "char" -> {"char"} \cup IntegerTargets
      [] U = "bool" -> IntegerTargets

\* A table whose char and bool lines reuse the numeric target list and
\* whose float lines reuse the u8 list.
TargetsSharedList(U) ==
    CASE U = "u8" -> {"char"} \cup NumericTargets
      [] U \in IntKinds \ {"u8"} -> NumericTargets
      [] U \in FloatKinds -> {"char"} \cup NumericTargets
      [] U = "char" -> {"char"} \cup NumericTargets
      [] U = "bool" -> {"char"} \cup NumericTargets

\* Targets(U): the kinds $T for which `impl PrimitiveFrom<$U> for $T` exists.
Targets(U) ==
    CASE U = "u8" -> {"char"} \cup NumericTargets
      [] U = "i8" -> NumericTargets
      [] U = "u16" -> NumericTargets
      [] U = "i16" -> NumericTargets
      [] U = "u32" -> NumericTargets
      [] U = "i32" -> NumericTargets
      [] U = "u64" -> NumericTargets
      [] U = "i64" -> NumericTargets
      [] U = "usize" -> NumericTargets
      [] U = "isize" -> NumericTargets
      [] U = "f32" -> NumericTargets
      [] U = "f64" -> NumericTargets
      [] U = "char" -> {"char"} \cup IntegerTargets
      [] U = "bool" -> IntegerTargets

\* The supported conversion relation: <<source, target>>.
Impl == {<<U, T>> \in Kinds \X Kinds : T \in Targets(U)}

----------------------------------------------------------------------------
\* Widths and bit vectors

\* The pointer widths a build of the crate can have.
PtrWidths == {16, 32, 64}

Width(K, p) ==
    CASE K \in {"u8", "i8", "bool"} -> 8
      [] K \in {"u16", "i16"} -> 16
      [] K \in {"u32", "i32", "f32", "char"} -> 32
      [] K \in {"u64", "i64", "f64"} -> 64
      [] K \in {"usize", "isize"} -> p

Signed(K) == K \in SignedKinds

RECURSIVE Pow2(_)
Pow2(n) == IF n = 0 THEN 1 ELSE 2 * Pow2(n - 1)

\* The w-bit vector of the number n, 0 <= n < 2^31.
Bits(n, w) == [i \in 1..w |-> IF i > 31 THEN 0 ELSE (n \div Pow2(i - 1)) % 2]

\* The bit vector written as 16-bit words, most significant word first.
Words(ws) ==
    [i \in 1..(16 * Len(ws)) |->
        (ws[Len(ws) - ((i - 1) \div 16)] \div Pow2((i - 1) % 16)) % 2]

BitVec(w) == [1..w -> {0, 1}]

\* The number a bit vector of at most 31 bits stands for, read as unsigned.
RECURSIVE UVal(_)
UVal(v) ==
    IF Len(v) = 0 THEN 0
    ELSE v[1] + 2 * UVal([i \in 1..(Len(v) - 1) |-> v[i + 1]])

\* Two's complement negation of a bit vector (same width).
NegBits(v) ==
    [i \in 1..Len(v) |->
        IF \E j \in 1..(i - 1) : v[j] = 1 THEN 1 - v[i] ELSE v[i]]

\* v + 1 modulo 2^Len(v).
IncBits(v) ==
    [i \in 1..Len(v) |->
        IF \A j \in 1..(i - 1) : v[j] = 1 THEN 1 - v[i] ELSE v[i]]

IsZero(v) == \A i \in 1..Len(v) : v[i] = 0

\* Whether the value v of integer kind K is negative.
IsNeg(K, v) == Signed(K) /\ v[Len(v)] = 1

\* |v| as an unsigned vector of v's width.
Magnitude(K, v) == IF IsNeg(K, v) THEN NegBits(v) ELSE v

\* Unsigned comparison of two bit vectors of any widths.
BitAt(v, i) == IF i <= Len(v) THEN v[i] ELSE 0
MaxLen(a, b) == IF Len(a) >= Len(b) THEN Len(a) ELSE Len(b)
ULess(a, b) ==
    \E i \in 1..MaxLen(a, b) :
        /\ BitAt(a, i) < BitAt(b, i)
        /\ \A j \in (i + 1)..MaxLen(a, b) : BitAt(a, j) = BitAt(b, j)
UEq(a, b) == \A i \in 1..MaxLen(a, b) : BitAt(a, i) = BitAt(b, i)

\* Whether two integer values of kinds S and T are the same number.
SameNumber(S, a, T, r) ==
    /\ IsNeg(S, a) = IsNeg(T, r)
    /\ UEq(Magnitude(S, a), Magnitude(T, r))

MinOf(T, w) == IF Signed(T) THEN [i \in 1..w |-> IF i = w THEN 1 ELSE 0]
               ELSE [i \in 1..w |-> 0]
MaxOf(T, w) == IF Signed(T) THEN [i \in 1..w |-> IF i = w THEN 0 ELSE 1]
               ELSE [i \in 1..w |-> 1]

----------------------------------------------------------------------------
\* Integer casts

\* A cast that zero-extends whatever the signedness of the source.
IntToIntZeroExtend(S, T, v, p) ==
    [i \in 1..Width(T, p) |-> IF i <= Width(S, p) THEN v[i] ELSE 0]

\* A checked cast: a value the target cannot hold clamps to the target's
\* nearest bound.
IntToIntSaturating(S, T, v, p) ==
    LET wS == Width(S, p)
        wT == Width(T, p)
        ext == [i \in 1..wT |->
                   IF i <= wS THEN v[i] ELSE IF Signed(S) THEN v[wS] ELSE 0]
        fits == IF IsNeg(S, v)
                THEN Signed(T) /\ \A i \in wT..wS : v[i] = 1
                ELSE \A i \in (IF Signed(T) THEN wT ELSE wT + 1)..wS : v[i] = 0
    IN  IF fits THEN ext
        ELSE IF IsNeg(S, v) THEN MinOf(T, wT) ELSE MaxOf(T, wT)

\* `a as $T` for integer kinds $U = S and $T = T: the low-order bits are
\* kept, and a wider target is filled with the sign bit of a signed source
\* and with zeros for an unsigned source.
IntToInt(S, T, v, p) ==
    LET wS == Width(S, p)
        wT == Width(T, p)
    IN  [i \in 1..wT |->
            IF i <= wS THEN v[i] ELSE IF Signed(S) THEN v[wS] ELSE 0]

\* A bool cast that yields the all-ones pattern for true.
BoolToIntAllOnes(T, v, p) == [i \in 1..Width(T, p) |-> v[1]]

\* `a as $T` for $U = bool: false is 0 and true is 1.
BoolToInt(T, v, p) == [i \in 1..Width(T, p) |-> IF i <= 8 THEN v[i] ELSE 0]

\* A char cast that goes through a 16-bit code unit.
CharToIntViaU16(T, v, p) ==
    [i \in 1..Width(T, p) |-> IF i <= 16 THEN v[i] ELSE 0]

\* `a as $T` for $U = char: the code point as a u32, cast to $T.
CharToInt(T, v, p) == [i \in 1..Width(T, p) |-> IF i <= 32 THEN v[i] ELSE 0]

\* `a as char` for $U = u8: the code point of that number.
U8ToChar(v) == [i \in 1..32 |-> IF i <= 8 THEN v[i] ELSE 0]

----------------------------------------------------------------------------
\* Floating point: IEEE 754 binary32 (f32) and binary64 (f64)

FracBits(F) == IF F = "f32" THEN 23 ELSE 52
ExpBits(F) == IF F = "f32" THEN 8 ELSE 11
Bias(F) == IF F = "f32" THEN 127 ELSE 1023

\* The fields of a float's bit vector.
FracOf(F, v) == [i \in 1..FracBits(F) |-> v[i]]
ExpOf(F, v) == UVal([i \in 1..ExpBits(F) |-> v[FracBits(F) + i]])
SignOf(F, v) == v[FracBits(F) + ExpBits(F) + 1]

ExpAllOnes(F) == Pow2(ExpBits(F)) - 1
IsNaN(F, v) == ExpOf(F, v) = ExpAllOnes(F) /\ ~IsZero(FracOf(F, v))
IsInf(F, v) == ExpOf(F, v) = ExpAllOnes(F) /\ IsZero(FracOf(F, v))
IsFinite(F, v) == ExpOf(F, v) # ExpAllOnes(F)

\* A finite float is (-1)^sign * Significand * 2^Scale: the significand is
\* the fraction with the hidden bit on top (0 for a subnormal).
Significand(F, v) ==
    [i \in 1..(FracBits(F) + 1) |->
        IF i <= FracBits(F) THEN v[i] ELSE IF ExpOf(F, v) = 0 THEN 0 ELSE 1]
Scale(F, v) ==
    (IF ExpOf(F, v) = 0 THEN 1 ELSE ExpOf(F, v)) - Bias(F) - FracBits(F)

\* Index of the highest set bit of a vector, 0 for the zero vector.
TopBit(m) ==
    IF IsZero(m) THEN 0
    ELSE CHOOSE t \in 1..Len(m) : m[t] = 1 /\ \A j \in (t + 1)..Len(m) : m[j] = 0

\* The encoding of sign, biased exponent e and fraction taken from the
\* significand m after dropping its d low bits, rounded to nearest, ties to
\* even; a carry out of the fraction moves into the exponent field.
RoundPack(F, sign, e, m, d) ==
    LET fb == FracBits(F)
        eb == ExpBits(F)
        at(k) == IF k >= 1 /\ k <= Len(m) THEN m[k] ELSE 0
        body == [i \in 1..(fb + eb) |->
                    IF i <= fb THEN at(i + d) ELSE (e \div Pow2(i - fb - 1)) % 2]
        guard == at(d)
        sticky == \E j \in 1..Len(m) : j < d /\ m[j] = 1
        up == d >= 1 /\ guard = 1 /\ (sticky \/ at(d + 1) = 1)
        rounded == IF up THEN IncBits(body) ELSE body
    IN  [i \in 1..(fb + eb + 1) |-> IF i <= fb + eb THEN rounded[i] ELSE sign]

Infinity(F, sign) ==
    [i \in 1..(FracBits(F) + ExpBits(F) + 1) |->
        IF i <= FracBits(F) THEN 0 ELSE IF i <= FracBits(F) + ExpBits(F) THEN 1 ELSE sign]
LargestFinite(F, sign) ==
    [i \in 1..(FracBits(F) + ExpBits(F) + 1) |->
        IF i = FracBits(F) + 1 THEN 0 ELSE IF i <= FracBits(F) + ExpBits(F) THEN 1 ELSE sign]
QuietNaN(F, sign) ==
    [i \in 1..(FracBits(F) + ExpBits(F) + 1) |->
        IF i < FracBits(F) THEN 0 ELSE IF i <= FracBits(F) + ExpBits(F) THEN 1 ELSE sign]

\* `a as $T` from an integer kind S to a float kind F: the nearest float,
\* ties to even.
IntToFloat(S, F, v, p) ==
    LET mag == Magnitude(S, v)
        t == TopBit(mag)
        sign == IF IsNeg(S, v) THEN 1 ELSE 0
    IN  IF t = 0 THEN [i \in 1..(FracBits(F) + ExpBits(F) + 1) |-> 0]
        ELSE RoundPack(F, sign, t - 1 + Bias(F), mag, t - 1 - FracBits(F))

\* Bit i of the integer part of |v|, for a finite float v.
TruncBit(F, v, i) ==
    LET k == i - Scale(F, v)
    IN  IF k >= 1 /\ k <= FracBits(F) + 1 THEN Significand(F, v)[k] ELSE 0

\* The number of bits of the integer part of |v| (0 when it is zero).
TruncLen(F, v) ==
    LET n == TopBit(Significand(F, v)) + Scale(F, v)
    IN  IF TopBit(Significand(F, v)) = 0 \/ n < 0 THEN 0 ELSE n

\* Whether the finite float v, truncated toward zero, is a value of the
\* integer kind T of width w.
TruncFits(F, v, T, w) ==
    LET n == TruncLen(F, v)
    IN  \/ n = 0
        \/ SignOf(F, v) = 0 /\ n <= (IF Signed(T) THEN w - 1 ELSE w)
        \/ /\ SignOf(F, v) = 1
           /\ Signed(T)
           /\ \/ n <= w - 1
              \/ n = w /\ \A i \in 1..(w - 1) : TruncBit(F, v, i) = 0

\* A float to integer cast that rounds half away from zero.
TruncRoundsNearest(F, v, w) ==
    LET mag == [i \in 1..w |-> TruncBit(F, v, i)]
        rnd == IF TruncBit(F, v, 0) = 1 THEN IncBits(mag) ELSE mag
    IN  IF SignOf(F, v) = 1 THEN NegBits(rnd) ELSE rnd

\* The integer part of v in two's complement, on w bits.
TruncToward0(F, v, w) ==
    LET mag == [i \in 1..w |-> TruncBit(F, v, i)]
    IN  IF SignOf(F, v) = 1 THEN NegBits(mag) ELSE mag

\* The saturating result of a float to integer cast: the bound of T on the
\* side of v, and 0 for a NaN.
Saturated(F, v, T, w) ==
    IF IsNaN(F, v) THEN [i \in 1..w |-> 0]
    ELSE IF SignOf(F, v) = 1 THEN MinOf(T, w) ELSE MaxOf(T, w)

\* Whether `a as $T` from float to integer is defined: the Safety section
\* makes it undefined when the truncated value cannot fit in $T.
FloatToIntDefined(F, T, v, p) ==
    IsFinite(F, v) /\ TruncFits(F, v, T, Width(T, p))

\* The results an undefined float to integer cast can have: the saturated
\* value of a compiler that defines the cast, or what an unchecked machine
\* conversion leaves in the register.
UndefinedInts(F, T, v, w) ==
    {Saturated(F, v, T, w), [i \in 1..w |-> 0], [i \in 1..w |-> 1],
     [i \in 1..w |-> IF i = w THEN 1 ELSE 0]}
    \cup (IF IsFinite(F, v) THEN {TruncToward0(F, v, w)} ELSE {})

\* `a as $T` from a float kind F to an integer kind T: the set of results.
FloatToInt(F, T, v, p) ==
    IF FloatToIntDefined(F, T, v, p) THEN {TruncToward0(F, v, Width(T, p))}
    ELSE UndefinedInts(F, T, v, Width(T, p))

\* The float v of kind S rounded to kind T (nearest, ties to even), a value
\* beyond T's range becoming an infinity.
RoundFloat(S, T, v) ==
    LET m == Significand(S, v)
        t == TopBit(m)
        e == t - 1 + Scale(S, v)
        sign == SignOf(S, v)
        emin == 1 - Bias(T)
    IN  IF IsNaN(S, v) THEN
            [i \in 1..(FracBits(T) + ExpBits(T) + 1) |->
                IF i < FracBits(T)
                THEN (LET k == i + FracBits(S) - FracBits(T)
                      IN  IF k >= 1 THEN v[k] ELSE 0)
                ELSE IF i <= FracBits(T) + ExpBits(T) THEN 1 ELSE sign]
        ELSE IF IsInf(S, v) THEN Infinity(T, sign)
        ELSE IF t = 0 THEN [i \in 1..(FracBits(T) + ExpBits(T) + 1) |->
                               IF i = FracBits(T) + ExpBits(T) + 1 THEN sign ELSE 0]
        ELSE IF e > Bias(T) THEN Infinity(T, sign)
        ELSE IF e >= emin THEN RoundPack(T, sign, e + Bias(T), m, t - 1 - FracBits(T))
        ELSE RoundPack(T, sign, 0, m, emin - FracBits(T) - Scale(S, v))

\* Whether `a as $T` between float kinds is defined: the Safety section
\* makes it undefined when the value does not fit in $T.
FloatToFloatDefined(S, T, v) ==
    ~(IsFinite(S, v) /\ IsInf(T, RoundFloat(S, T, v)))

\* The results an undefined float to float cast can have.
UndefinedFloats(S, T, v) ==
    {RoundFloat(S, T, v), LargestFinite(T, SignOf(S, v)), QuietNaN(T, 0),
     [i \in 1..(FracBits(T) + ExpBits(T) + 1) |-> 0]}

\* `a as $T` between float kinds: the set of results.
FloatToFloat(S, T, v) ==
    IF S = T THEN {v}
    ELSE IF FloatToFloatDefined(S, T, v) THEN {RoundFloat(S, T, v)}
    ELSE UndefinedFloats(S, T, v)

----------------------------------------------------------------------------
\* `a as $T`, the body of every generated `from`: the set of results of
\* casting the value v of kind S to kind T on a build of pointer width p.
As(S, T, v, p) ==
    CASE S \in IntKinds /\ T \in IntKinds -> {IntToInt(S, T, v, p)}
      [] S \in IntKinds /\ T \in FloatKinds -> {IntToFloat(S, T, v, p)}
      [] S = "u8" /\ T = "char" -> {U8ToChar(v)}
      [] S \in FloatKinds /\ T \in IntKinds -> FloatToInt(S, T, v, p)
      [] S \in FloatKinds /\ T \in FloatKinds -> FloatToFloat(S, T, v)
      [] S = "char" /\ T = "char" -> {v}
      [] S = "char" /\ T \in IntKinds -> {CharToInt(T, v, p)}
      [] S = "bool" /\ T \in IntKinds -> {BoolToInt(T, v, p)}

----------------------------------------------------------------------------
\* Input values

IntSamples(w) ==
    {Bits(0, w), Bits(1, w), Bits(127, w), Bits(128, w), Bits(200, w),
     Bits(255, w)}
    \cup {[i \in 1..w |-> 1], [i \in 1..w |-> IF i = w THEN 1 ELSE 0],
          [i \in 1..w |-> IF i = w THEN 0 ELSE 1]}
    \cup (IF w >= 16 THEN {Bits(768, w), Bits(32768, w), Bits(65535, w)} ELSE {})
    \cup (IF w >= 32 THEN {Bits(16777217, w), Bits(2147483520, w)} ELSE {})
    \cup (IF w >= 64 THEN {[i \in 1..w |-> IF i <= 32 THEN 1 ELSE 0],
                           [i \in 1..w |-> IF i = 1 \/ i = 55 THEN 1 ELSE 0]}
          ELSE {})

\* 'A', NUL, U+007F, U+00E9, U+20AC, U+D7FF, U+1F600, U+10FFFF
CharSamples ==
    {Bits(65, 32), Bits(0, 32), Bits(127, 32), Bits(233, 32), Bits(8364, 32),
     Bits(55295, 32), Bits(128512, 32), Bits(1114111, 32)}

BoolSamples == {Bits(0, 8), Bits(1, 8)}

F32Samples ==
    {Words(<<\h4049, \h0FDB>>),   \* 3.14159265
     Words(<<\h407F, \h5C29>>),   \* 3.99
     Words(<<\hC07F, \h5C29>>),   \* -3.99
     Words(<<\h3FD0, \h0000>>),   \* 1.625
     Words(<<\h7FC0, \h0000>>),   \* NaN
     Words(<<\h7F80, \h0000>>),   \* +inf
     Words(<<\hFF80, \h0000>>),   \* -inf
     Words(<<\h0000, \h0000>>),   \* 0.0
     Words(<<\h8000, \h0000>>),   \* -0.0
     Words(<<\hBF00, \h0000>>),   \* -0.5
     Words(<<\h437F, \hE666>>),   \* 255.9
     Words(<<\h4380, \h0000>>),   \* 256.0
     Words(<<\hC300, \h8000>>),   \* -128.5
     Words(<<\hC301, \h0000>>),   \* -129.0
     Words(<<\h477F, \hFF80>>),   \* 65535.5
     Words(<<\h4F00, \h0000>>),   \* 2^31
     Words(<<\hCF00, \h0000>>),   \* -2^31
     Words(<<\h5F00, \h0000>>),   \* 2^63
     Words(<<\h5BB8, \hBDB9>>),   \* 1.04e17
     Words(<<\h7F7F, \hFFFF>>),   \* the largest f32
     Words(<<\h0001, \h16C2>>)}   \* 1e-40, subnormal

F64Samples ==
    {Words(<<\h3FFA, \h0000, \h0000, \h0000>>),   \* 1.625
     Words(<<\h4009, \h21FB, \h5444, \h2D18>>),   \* 3.14159265358979323846
     Words(<<\h4377, \h17B7, \h2F0A, \h4000>>),   \* 1.04e17
     Words(<<\h7E37, \hE43C, \h8800, \h759C>>),   \* 1e300
     Words(<<\hFE37, \hE43C, \h8800, \h759C>>),   \* -1e300
     Words(<<\h7FF8, \h0000, \h0000, \h0000>>),   \* NaN
     Words(<<\h7FF0, \h0000, \h0000, \h0000>>),   \* +inf
     Words(<<\hFFF0, \h0000, \h0000, \h0000>>),   \* -inf
     Words(<<\h0000, \h0000, \h0000, \h0000>>),   \* 0.0
     Words(<<\h8000, \h0000, \h0000, \h0000>>),   \* -0.0
     Words(<<\h400F, \hEB85, \h1EB8, \h51EC>>),   \* 3.99
     Words(<<\hC00F, \hEB85, \h1EB8, \h51EC>>),   \* -3.99
     Words(<<\hBFE0, \h0000, \h0000, \h0000>>),   \* -0.5
     Words(<<\h406F, \hFCCC, \hCCCC, \hCCCD>>),   \* 255.9
     Words(<<\h4070, \h0000, \h0000, \h0000>>),   \* 256.0
     Words(<<\hC060, \h1CCC, \hCCCC, \hCCCD>>),   \* -128.9
     Words(<<\hC060, \h2000, \h0000, \h0000>>),   \* -129.0
     Words(<<\hC0E0, \h0010, \h0000, \h0000>>),   \* -32768.5
     Words(<<\h41DF, \hFFFF, \hFFE0, \h0000>>),   \* 2147483647.5
     Words(<<\h41F0, \h0000, \h0000, \h0000>>),   \* 2^32
     Words(<<\h43E0, \h0000, \h0000, \h0000>>),   \* 2^63
     Words(<<\hC3E0, \h0000, \h0000, \h0000>>),   \* -2^63
     Words(<<\h4170, \h0000, \h1000, \h0000>>),   \* 2^24 + 1
     Words(<<\h4170, \h0000, \h3000, \h0000>>),   \* 2^24 + 3
     Words(<<\h3FB9, \h9999, \h9999, \h999A>>),   \* 0.1
     Words(<<\h47EF, \hFFFF, \hE000, \h0000>>),   \* the largest f32
     Words(<<\h47EF, \hFFFF, \hEFFF, \hFFFF>>),   \* just below the next
     Words(<<\h47EF, \hFFFF, \hF000, \h0000>>),   \* largest f32 + half an ulp
     Words(<<\h37A1, \h6C26, \h2777, \h579C>>),   \* 1e-40
     Words(<<\h3690, \h0000, \h0000, \h0000>>),   \* 2^-150
     Words(<<\h3698, \h0000, \h0000, \h0000>>),   \* 1.5 * 2^-150
     Words(<<\h0000, \h0000, \h0000, \h0001>>)}   \* 5e-324, subnormal

\* The values of kind K the conversions are applied to.
Samples(K, p) ==
    CASE K \in IntKinds -> IntSamples(Width(K, p))
      [] K = "f32" -> F32Samples
      [] K = "f64" -> F64Samples
      [] K = "char" -> CharSamples
      [] K = "bool" -> BoolSamples

----------------------------------------------------------------------------
\* The state machine: a caller holds a value `orig`, converts it with
\* PrimitiveFrom::from, and converts the result back and forth between the
\* two kinds.  `prev` is the argument and `cur` the result of the last call.

Scalar(K, v) == [kind |-> K, val |-> v]

Init ==
    /\ ptr \in PtrWidths
    /\ orig \in UNION {{Scalar(K, v) : v \in Samples(K, ptr)} : K \in Kinds}
    /\ prev = orig
    /\ cur = orig
    /\ step = 0

\* <$T as PrimitiveFrom<$U>>::from(a) with a = cur: `a as $T`.
From(T) ==
    /\ step < MaxSteps
    /\ <<cur.kind, T>> \in Impl
    /\ step = 0 \/ T = prev.kind
    /\ \E r \in As(cur.kind, T, cur.val, ptr) : cur' = Scalar(T, r)
    /\ prev' = cur
    /\ step' = step + 1
    /\ UNCHANGED <<ptr, orig>>

\* The implementations generated for the integer sources.
FromInteger == cur.kind \in IntKinds /\ \E T \in Kinds : From(T)

\* The implementations generated for f32 and f64.
FromFloat == cur.kind \in FloatKinds /\ \E T \in Kinds : From(T)

\* The implementations generated for char.
FromChar == cur.kind = "char" /\ \E T \in Kinds : From(T)

\* The implementations generated for bool.
FromBool == cur.kind = "bool" /\ \E T \in Kinds : From(T)

Next == FromInteger \/ FromFloat \/ FromChar \/ FromBool

Spec == Init /\ [][Next]_vars

TypeOK ==
    /\ ptr \in PtrWidths
    /\ step \in 0..MaxSteps
    /\ cur.kind \in Kinds
    /\ cur.val \in BitVec(Width(cur.kind, ptr))

----------------------------------------------------------------------------
\* Properties.  After a call, prev is the argument (kind S, value a) and cur
\* the result (kind T, value r).

Called == step >= 1
IntToIntCall == Called /\ prev.kind \in IntKinds /\ cur.kind \in IntKinds
WidthOf(x) == Width(x.kind, ptr)

\* The number a two's complement vector of at most 16 bits stands for.
SVal(K, v) == IF IsNeg(K, v) THEN UVal(v) - Pow2(Len(v)) ELSE UVal(v)

\* C1: an integer converted to a narrower integer kind yields the low-order
\* width(T) bits of the argument, which is the value of T congruent to the
\* argument modulo 2^width(T); 768 of i16 converts to 0 of u8.
C1_NarrowingWraps ==
    (IntToIntCall /\ WidthOf(cur) < WidthOf(prev)) =>
        /\ Len(cur.val) = WidthOf(cur)
        /\ \A i \in 1..WidthOf(cur) : cur.val[i] = prev.val[i]
        /\ WidthOf(prev) <= 16 =>
              (SVal(prev.kind, prev.val) - SVal(cur.kind, cur.val))
                  % Pow2(WidthOf(cur)) = 0
        /\ (prev = Scalar("i16", Bits(768, 16)) /\ cur.kind = "u8") =>
              UVal(cur.val) = 0

C1_Witness ==
    /\ Called
    /\ prev = Scalar("i16", Bits(768, 16))
    /\ cur = Scalar("u8", Bits(0, 8))

\* Whether the argument of the last call is a number its target kind has.
Representable ==
    /\ ~(IsNeg(prev.kind, prev.val) /\ ~Signed(cur.kind))
    /\ ~(/\ WidthOf(cur) = WidthOf(prev)
         /\ ~Signed(prev.kind)
         /\ Signed(cur.kind)
         /\ prev.val[WidthOf(prev)] = 1)

\* C2 as stated: an integer converted to an integer kind at least as wide
\* keeps its value (at equal width, its bit pattern).
C2_ValuePreserving ==
    (IntToIntCall /\ WidthOf(cur) >= WidthOf(prev)) =>
        IF WidthOf(cur) = WidthOf(prev) THEN cur.val = prev.val
        ELSE SameNumber(prev.kind, prev.val, cur.kind, cur.val)

\* C2, amended: an integer converted to an integer kind at least as wide is
\* sign-extended when the source kind is signed and zero-extended when it is
\* unsigned, so at equal width the bit pattern is unchanged; the number is
\* kept exactly when the target kind has it, that is unless the argument is
\* negative and the target unsigned, or the widths are equal, the source
\* unsigned, the target signed and the top bit of the argument set.
C2_Extends ==
    (IntToIntCall /\ WidthOf(cur) >= WidthOf(prev)) =>
        /\ Len(cur.val) = WidthOf(cur)
        /\ \A i \in 1..WidthOf(prev) : cur.val[i] = prev.val[i]
        /\ \A i \in (WidthOf(prev) + 1)..WidthOf(cur) :
              cur.val[i] = IF Signed(prev.kind) THEN prev.val[WidthOf(prev)] ELSE 0
        /\ SameNumber(prev.kind, prev.val, cur.kind, cur.val) <=> Representable

C2_Witness ==
    /\ Called
    /\ prev = Scalar("i8", Bits(255, 8))
    /\ cur = Scalar("u16", Bits(65535, 16))

\* C3: an integer converted to an integer kind at least as wide (its own
\* kind included) and converted back is the original value.
C3_RoundTrip ==
    (/\ step >= 2
     /\ step % 2 = 0
     /\ orig.kind \in IntKinds
     /\ prev.kind \in IntKinds
     /\ cur.kind = orig.kind
     /\ WidthOf(prev) >= WidthOf(orig)) => cur.val = orig.val

C3_Witness ==
    /\ step = 2
    /\ orig = Scalar("i8", Bits(255, 8))
    /\ prev = Scalar("u16", Bits(65535, 16))
    /\ cur = orig

FloatToIntCall == Called /\ prev.kind \in FloatKinds /\ cur.kind \in IntKinds

\* Whether the argument of the last call, truncated, is a value of its
\* target kind.
ArgFits ==
    /\ IsFinite(prev.kind, prev.val)
    /\ TruncFits(prev.kind, prev.val, cur.kind, WidthOf(cur))

\* C5 as stated: a float whose truncation does not fit the integer target
\* converts to the target's maximum when above it, to the target's minimum
\* when below it, and to 0 when it is a NaN.
C5_Saturates ==
    (FloatToIntCall /\ ~ArgFits) =>
        cur.val = IF IsNaN(prev.kind, prev.val) THEN Bits(0, WidthOf(cur))
                  ELSE IF SignOf(prev.kind, prev.val) = 0
                       THEN MaxOf(cur.kind, WidthOf(cur))
                       ELSE MinOf(cur.kind, WidthOf(cur))

\* |v| for a float v: the encoding with the sign bit cleared.  Among
\* non-negative floats of one kind, the order of the encodings read as
\* unsigned numbers is the order of the floats.
AbsFloat(v) == [i \in 1..Len(v) |-> IF i = Len(v) THEN 0 ELSE v[i]]

\* Whether the integer r of kind T is the float a of kind F truncated toward
\* zero: r has the sign of a unless it is 0, and |r| <= |a| < |r| + 1.  |r|
\* and |r| + 1 are compared as floats, which they convert to exactly when a
\* has a fraction; when it has none, |r| converts to |a|.
IsTruncationOf(F, a, T, r) ==
    LET mag == Magnitude(T, r)
        next == IncBits([i \in 1..(Len(mag) + 1) |-> BitAt(mag, i)])
        lo == IntToFloat("u64", F, mag, 64)
        hi == IntToFloat("u64", F, next, 64)
    IN  /\ IsNeg(T, r) => SignOf(F, a) = 1
        /\ (SignOf(F, a) = 1 /\ ~IsZero(r)) => IsNeg(T, r)
        /\ IF Scale(F, a) >= 0 THEN lo = AbsFloat(a)
           ELSE ~ULess(AbsFloat(a), lo) /\ ULess(AbsFloat(a), hi)

\* C6: a finite float whose truncation lies in the integer target's range
\* converts to its integer part, for negative as for positive values;
\* 3.14159265 of f32 converts to 3 of i32.
C6_TruncatesTowardZero ==
    (FloatToIntCall /\ ArgFits) =>
        /\ IsTruncationOf(prev.kind, prev.val, cur.kind, cur.val)
        /\ (prev = Scalar("f32", Words(<<\h4049, \h0FDB>>)) /\ cur.kind = "i32") =>
              cur.val = Bits(3, 32)

C6_Witness ==
    /\ Called
    /\ prev = Scalar("f64", Words(<<\hC00F, \hEB85, \h1EB8, \h51EC>>))
    /\ cur = Scalar("i8", Bits(253, 8))

\* The pairs C7 is about.
Unsupported ==
    (FloatKinds \X {"bool", "char"})
    \cup {<<"bool", "char">>, <<"char", "bool">>}
    \cup ({"bool", "char"} \X FloatKinds)

\* C7: no implementation exists from a float kind into bool or char, between
\* bool and char, or from bool or char into a float kind, so no call ever
\* converts along such a pair.
C7_NoSuchPair ==
    /\ Unsupported \cap Impl = {}
    /\ Called => <<prev.kind, cur.kind>> \notin Unsupported

C7_Witness ==
    /\ step = 1
    /\ prev.kind = "char"
    /\ cur.kind \in IntKinds
    /\ Targets("char") \cap ({"bool"} \cup FloatKinds) = {}

\* C8: true converts to 1 and false to 0 in every integer kind.
C8_BoolToInt ==
    (Called /\ prev.kind = "bool" /\ cur.kind \in IntKinds) =>
        /\ prev.val = Bits(1, 8) => (UVal(cur.val) = 1 /\ ~IsNeg(cur.kind, cur.val))
        /\ prev.val = Bits(0, 8) => IsZero(cur.val)
        /\ Len(cur.val) = WidthOf(cur)

C8_Witness ==
    /\ Called
    /\ prev = Scalar("bool", Bits(1, 8))
    /\ cur = Scalar("i64", Bits(1, 64))

\* Whether the integer kind T on w bits has the code point of the char c.
HasCodePoint(T, w, c) ==
    \A i \in 1..32 : i > (IF Signed(T) THEN w - 1 ELSE w) => c[i] = 0

\* C9: a char converts to its code point in every integer kind whose range
\* contains the code point.
C9_CharToInt ==
    (/\ Called
     /\ prev.kind = "char"
     /\ cur.kind \in IntKinds
     /\ HasCodePoint(cur.kind, WidthOf(cur), prev.val)) =>
        /\ ~IsNeg(cur.kind, cur.val)
        /\ UVal(cur.val) = UVal(prev.val)

C9_Witness ==
    /\ Called
    /\ prev = Scalar("char", Bits(128512, 32))
    /\ cur.kind = "u32"
    /\ UVal(cur.val) = 128512

\* C10 as stated: f64 to f32 preserves 1.625 exactly, takes
\* 3.14159265358979323846 to 3.1415927, and takes a finite value at least
\* half an ulp beyond the largest f32 to the infinity of its sign.
C10_NearestOrInfinity ==
    (Called /\ prev.kind = "f64" /\ cur.kind = "f32") =>
        /\ prev.val = Words(<<\h3FFA, \h0000, \h0000, \h0000>>) =>
              cur.val = Words(<<\h3FD0, \h0000>>)
        /\ prev.val = Words(<<\h4009, \h21FB, \h5444, \h2D18>>) =>
              cur.val = Words(<<\h4049, \h0FDB>>)
        /\ (/\ IsFinite("f64", prev.val)
            /\ ~ULess(AbsFloat(prev.val), Words(<<\h47EF, \hFFFF, \hF000, \h0000>>))) =>
              cur.val = Infinity("f32", SignOf("f64", prev.val))

====
